---- MODULE Spec2Model ----
(***************************************************************************)
(* python201.algorithms: cumulative_product and its command line entry     *)
(* point main (the console script `cumprod`).                              *)
(*                                                                         *)
(* A run of main is one behaviour: argv and the text of the input stream   *)
(* are chosen in Init, and each action is one step of main.  Floats are    *)
(* integer-valued and kept as sign and magnitude (IEEE-754 has a signed    *)
(* zero, which '%g' prints); every magnitude the model reaches is far      *)
(* below 2^53, where float multiplication is exact.  Texts are sequences   *)
(* of one-character strings.  Python lists live in a heap of list objects  *)
(* named by reference, so that aliasing and copying are distinguishable.   *)
(***************************************************************************)
EXTENDS Integers, Sequences, FiniteSets, TLC

\* Longest input stream, in lines.
MaxLen == 3

\* The precision of the format specification 'g': 6 significant digits.
GPrecision == 6

VARIABLES argv, infile_lines, pc, cmdline, pos, heap, array, result,
          streams, opened, closed, status

vars == <<argv, infile_lines, pc, cmdline, pos, heap, array, result,
          streams, opened, closed, status>>

----------------------------------------------------------------------------
(* Floats: integer-valued, sign and magnitude.                             *)

Float(neg, mag) == [neg |-> neg, mag |-> mag]

\* result[i] * value
Mul(a, b) == [neg |-> a.neg # b.neg, mag |-> a.mag * b.mag]

Digits == <<"0", "1", "2", "3", "4", "5", "6", "7", "8", "9">>

IsDigit(c) == \E d \in 1..10 : Digits[d] = c

DigitValue(c) == (CHOOSE d \in 1..10 : Digits[d] = c) - 1

IsSpace(c) == c \in {" ", "\n", "\t"}

RECURSIVE LStrip(_)
LStrip(s) == IF s # <<>> /\ IsSpace(s[1]) THEN LStrip(SubSeq(s, 2, Len(s))) ELSE s

RECURSIVE RStrip(_)
RStrip(s) ==
    IF s # <<>> /\ IsSpace(s[Len(s)]) THEN RStrip(SubSeq(s, 1, Len(s) - 1)) ELSE s

RECURSIVE DigitsValue(_)
DigitsValue(s) ==
    IF s = <<>> THEN 0
    ELSE 10 * DigitsValue(SubSeq(s, 1, Len(s) - 1)) + DigitValue(s[Len(s)])

\* float(line) on the integer literals [ws] [+-] digit+ [ws]; anything else
\* the model feeds it raises ValueError (ok = FALSE).
ParseFloat(line) ==
    LET s    == RStrip(LStrip(line))
        sign == s # <<>> /\ s[1] \in {"+", "-"}
        body == IF sign THEN SubSeq(s, 2, Len(s)) ELSE s
    IN  IF body # <<>> /\ \A k \in 1..Len(body) : IsDigit(body[k])
        THEN [ok |-> TRUE,
              val |-> Float(sign /\ s[1] = "-", DigitsValue(body))]
        ELSE [ok |-> FALSE, val |-> Float(FALSE, 0)]

RECURSIVE NatToStr(_)
NatToStr(n) ==
    IF n < 10 THEN <<Digits[n + 1]>>
    ELSE NatToStr(n \div 10) \o <<Digits[(n % 10) + 1]>>

RECURSIVE Pow10(_)
Pow10(k) == IF k = 0 THEN 1 ELSE 10 * Pow10(k - 1)

\* floor(log10(n)) for n >= 1
RECURSIVE Exp10(_)
Exp10(n) == IF n < 10 THEN 0 ELSE 1 + Exp10(n \div 10)

RECURSIVE StripZeros(_)
StripZeros(s) ==
    IF s # <<>> /\ s[Len(s)] = "0" THEN StripZeros(SubSeq(s, 1, Len(s) - 1)) ELSE s

\* n / d rounded to the nearest integer, ties to even
RoundHalfEven(n, d) ==
    LET q == n \div d
        r == n % d
    IN  IF 2 * r > d \/ (2 * r = d /\ q % 2 = 1) THEN q + 1 ELSE q

\* f'{value:g}' of an integer-valued float: fixed notation while the decimal
\* exponent is below the precision, otherwise d.ddddde+XX with trailing
\* zeros (and a bare point) removed.
format_g(value) ==
    LET sgn == IF value.neg THEN <<"-">> ELSE <<>>
        m   == value.mag
    IN  IF m = 0 THEN sgn \o <<"0">>
        ELSE LET x == Exp10(m)
             IN  IF x < GPrecision THEN sgn \o NatToStr(m)
                 ELSE LET r0   == RoundHalfEven(m, Pow10(x - (GPrecision - 1)))
                          over == r0 = Pow10(GPrecision)
                          r    == IF over THEN r0 \div 10 ELSE r0
                          e    == IF over THEN x + 1 ELSE x
                          ds   == NatToStr(r)
                          frac == StripZeros(SubSeq(ds, 2, Len(ds)))
                          es   == NatToStr(e)
                      IN  sgn \o <<ds[1]>>
                              \o (IF frac = <<>> THEN <<>> ELSE <<".">> \o frac)
                              \o <<"e", "+">>
                              \o (IF Len(es) < 2 THEN <<"0">> ELSE <<>>) \o es

----------------------------------------------------------------------------
(* Lists.  heap is a sequence of list objects; a reference is an index     *)
(* into it and 0 is None.                                                  *)

\* list(array): a new list object holding the elements of heap[array]
ListCopy(h, array_ref) ==
    [heap |-> Append(h, h[array_ref]), ref |-> Len(h) + 1]

\* array[1:]: a new list object holding all but the first element
SliceTail(h, array_ref) ==
    [heap |-> Append(h, SubSeq(h[array_ref], 2, Len(h[array_ref]))),
     ref  |-> Len(h) + 1]

\* for i, value in enumerate(array[1:]): the iteration has an i-th element
LoopContinues(h, array_ref, slice_ref, i) == i < Len(h[slice_ref])

\* a mutant of LoopBody: the product is taken with array[i], not result[i]
LoopBodyNoAccumulate(h, array_ref, result_ref, slice_ref, i) ==
    [h EXCEPT ![result_ref][i + 2] = Mul(h[array_ref][i + 1], h[slice_ref][i + 1])]

\* result[i+1] = result[i] * value   (i counts from 0, sequences from 1)
LoopBody(h, array_ref, result_ref, slice_ref, i) ==
    [h EXCEPT ![result_ref][i + 2] = Mul(h[result_ref][i + 1], h[slice_ref][i + 1])]

RECURSIVE Loop(_, _, _, _, _)
Loop(h, array_ref, result_ref, slice_ref, i) ==
    IF LoopContinues(h, array_ref, slice_ref, i)
    THEN Loop(LoopBody(h, array_ref, result_ref, slice_ref, i),
              array_ref, result_ref, slice_ref, i + 1)
    ELSE h

\* a mutant of NewResult: result = array, the same list object
NewResultAlias(h, array_ref) == [heap |-> h, ref |-> array_ref]

\* result = list(array)
NewResult(h, array_ref) == ListCopy(h, array_ref)

RECURSIVE AppendLoop(_, _, _)
AppendLoop(res, rest, last) ==
    IF rest = <<>> \/ rest[1] = last THEN res
    ELSE AppendLoop(Append(res, Mul(res[Len(res)], rest[1])), Tail(rest), last)

\* a mutant of cumulative_product: the result is built by appending, and the
\* loop is left at a value equal to array[-1]
cumulative_product_early_exit(h, array_ref) ==
    LET a == h[array_ref]
        r == IF a = <<>> THEN <<>>
             ELSE AppendLoop(<<a[1]>>, Tail(a), a[Len(a)])
    IN  [heap |-> Append(h, r), ref |-> Len(h) + 1]

\* cumulative_product(array): the heap after the call and the reference returned
cumulative_product(h, array_ref) ==
    LET r == NewResult(h, array_ref)
        s == SliceTail(r.heap, array_ref)
    IN  [heap |-> Loop(s.heap, array_ref, r.ref, s.ref, 0), ref |-> r.ref]

----------------------------------------------------------------------------
(* The command line.                                                       *)

\* The arguments a command line is made of: the positional FILE, -o FILE
\* in its attached form, -l and -v.
Tokens == {"in.txt", "-oout.txt", "-l", "-v"}

\* Command lines: every order of every choice of distinct arguments.
ArgvSet ==
    UNION {{a \in [1..n -> Tokens] : \A i, j \in 1..n : a[i] = a[j] => i = j}
           : n \in 0..Cardinality(Tokens)}

\* The lines an input stream is made of, as iterating a text file yields them.
LineSet == {<<"2", "\n">>, <<"-", "3", "\n">>, <<"0", "\n">>,
            <<"1", "0", "0", "\n">>, <<"x", "\n">>}

InputSet == UNION {[1..n -> LineSet] : n \in 0..MaxLen}

\* version='0.0.1', as the version action prints it
VersionText == <<"0", ".", "0", ".", "1", "\n">>

\* The namespace before any argument is seen: every default set.
Defaults == [infile |-> "<stdin>", outfile |-> "<stdout>", last_only |-> FALSE]

NoNamespace == [infile |-> "None", outfile |-> "None", last_only |-> FALSE]

\* a mutant of VersionAction: the version is printed and parsing goes on
VersionActionNoExit(st) == [st EXCEPT !.stdout = st.stdout \o VersionText]

\* action='version': print the version to stdout and exit with status 0
VersionAction(st) ==
    [st EXCEPT !.stdout = st.stdout \o VersionText, !.exit = "SystemExit(0)"]

\* One argument string, handled by the action registered for it.  FileType
\* opens the named file as the argument is converted.
ParseArg(st, tok) ==
    CASE tok = "-v" -> VersionAction(st)
      [] tok = "-l" -> [st EXCEPT !.ns.last_only = TRUE]
      [] tok = "-oout.txt" ->
            [st EXCEPT !.ns.outfile = "out.txt", !.opened = @ \cup {"out.txt"}]
      [] tok = "in.txt" ->
            [st EXCEPT !.ns.infile = "in.txt", !.opened = @ \cup {"in.txt"},
                       !.seen = @ \cup {"infile"}]

RECURSIVE ParseLoop(_, _, _)
ParseLoop(args, i, st) ==
    IF i > Len(args) \/ st.exit # "none" THEN st
    ELSE ParseLoop(args, i + 1, ParseArg(st, args[i]))

\* The destinations argparse requires: a positional argument declared
\* without nargs is required, whatever its default.
Required == {"infile"}

\* parser.parse_args(argv): the namespace, or the exit the parser takes
parse_args(args) ==
    LET st == ParseLoop(args, 1, [ns |-> Defaults, opened |-> {}, seen |-> {},
                                  stdout |-> <<>>, exit |-> "none"])
    IN  IF st.exit = "none" /\ ~(Required \subseteq st.seen)
        THEN [st EXCEPT !.exit = "SystemExit(2)"]
        ELSE st

\* a mutant of Start: the whole result is kept whatever -l says
StartAlwaysZero(last_only) == 0

\* start = -1 if cmdline.last_only else 0
Start(last_only) == IF last_only THEN -1 ELSE 0

\* list[start:], a negative start counting from the end and clamped at 0
SliceFrom(list, start) ==
    LET n  == Len(list)
        lo == IF start < 0 THEN (IF n + start < 0 THEN 0 ELSE n + start)
              ELSE (IF start > n THEN n ELSE start)
    IN  SubSeq(list, lo + 1, n)

\* '\n'.join(strs)
RECURSIVE Join(_)
Join(strs) ==
    IF strs = <<>> THEN <<>>
    ELSE IF Len(strs) = 1 THEN strs[1]
    ELSE strs[1] \o <<"\n">> \o Join(Tail(strs))

\* a mutant of PrintText: nothing is printed for an empty list
PrintTextSkipEmpty(strs) == IF strs = <<>> THEN <<>> ELSE Join(strs) \o <<"\n">>

\* print('\n'.join(strs), file=...): the text, then the end-of-line print adds
PrintText(strs) == Join(strs) \o <<"\n">>

----------------------------------------------------------------------------
(* main, one action per step.                                              *)

Terminal == {"returned", "raised", "exited"}

Init ==
    /\ argv \in ArgvSet
    /\ infile_lines \in InputSet
    /\ pc = "parse_args"
    /\ cmdline = NoNamespace
    /\ pos = 0
    /\ heap = <<>>
    /\ array = 0
    /\ result = 0
    /\ streams = [s \in {"<stdout>", "out.txt"} |-> <<>>]
    /\ opened = {}
    /\ closed = {}
    /\ status = "running"

\* cmdline = parser.parse_args(argv)
ParseArgs ==
    /\ pc = "parse_args"
    /\ LET st == parse_args(argv)
       IN  /\ opened' = st.opened
           /\ streams' = [streams EXCEPT !["<stdout>"] = @ \o st.stdout]
           /\ IF st.exit = "none"
              THEN /\ cmdline' = st.ns
                   /\ pc' = "map"
                   /\ status' = status
              ELSE /\ cmdline' = cmdline
                   /\ pc' = "exited"
                   /\ status' = st.exit
    /\ UNCHANGED <<argv, infile_lines, pos, heap, array, closed, result>>

\* values = map(float, cmdline.infile), and list(values) before its first
\* element: a lazy iterator and an empty list, no line read yet
MapFloat ==
    /\ pc = "map"
    /\ heap' = Append(heap, <<>>)
    /\ array' = Len(heap) + 1
    /\ pc' = "list"
    /\ UNCHANGED <<argv, infile_lines, cmdline, pos, result, streams, opened,
                   closed, status>>

\* a mutant of ReadLine: a line that is no number is skipped
ReadLineSkipBad ==
    /\ pc = "list"
    /\ pos < Len(infile_lines)
    /\ LET p == ParseFloat(infile_lines[pos + 1])
       IN  heap' = IF p.ok THEN [heap EXCEPT ![array] = Append(@, p.val)] ELSE heap
    /\ pos' = pos + 1
    /\ UNCHANGED <<argv, infile_lines, pc, cmdline, array, result, streams,
                   opened, closed, status>>

\* a mutant of ReadLine: each product is written as soon as its line is read
ReadLineStreaming ==
    /\ pc = "list"
    /\ pos < Len(infile_lines)
    /\ LET p == ParseFloat(infile_lines[pos + 1])
           v == IF heap[array] = <<>> THEN p.val
                ELSE Mul(heap[array][Len(heap[array])], p.val)
       IN  IF p.ok
           THEN /\ heap' = [heap EXCEPT ![array] = Append(@, v)]
                /\ streams' = [streams EXCEPT
                                 ![cmdline.outfile] = @ \o format_g(v) \o <<"\n">>]
                /\ UNCHANGED <<pc, status>>
           ELSE /\ pc' = "raised"
                /\ status' = "ValueError"
                /\ UNCHANGED <<heap, streams>>
    /\ pos' = pos + 1
    /\ UNCHANGED <<argv, infile_lines, cmdline, array, result, opened, closed>>

\* list(values), one element: the next line of the input stream is read and
\* converted by float, which raises ValueError out of main on a line that
\* is no number
ReadLine ==
    /\ pc = "list"
    /\ pos < Len(infile_lines)
    /\ LET p == ParseFloat(infile_lines[pos + 1])
       IN  IF p.ok
           THEN /\ heap' = [heap EXCEPT ![array] = Append(@, p.val)]
                /\ UNCHANGED <<pc, status>>
           ELSE /\ pc' = "raised"
                /\ status' = "ValueError"
                /\ heap' = heap
    /\ pos' = pos + 1
    /\ UNCHANGED <<argv, infile_lines, cmdline, array, result, streams, opened,
                   closed>>

\* result = cumulative_product(list(values)), once the stream is exhausted
CallCumulativeProduct ==
    /\ pc = "list"
    /\ pos = Len(infile_lines)
    /\ LET r == cumulative_product(heap, array)
       IN  /\ heap' = r.heap
           /\ result' = r.ref
    /\ pc' = "print"
    /\ UNCHANGED <<argv, infile_lines, cmdline, pos, array, streams, opened,
                   closed, status>>

\* start = ...; print('\n'.join([f'{value:g}' for value in result[start:]]),
\*                    file=cmdline.outfile)
PrintResult ==
    /\ pc = "print"
    /\ LET start == Start(cmdline.last_only)
           kept  == SliceFrom(heap[result], start)
           strs  == [k \in 1..Len(kept) |-> format_g(kept[k])]
       IN  streams' = [streams EXCEPT ![cmdline.outfile] = @ \o PrintText(strs)]
    /\ pc' = "return"
    /\ UNCHANGED <<argv, infile_lines, cmdline, pos, heap, array, result, opened,
                   closed, status>>

\* return 0
Return ==
    /\ pc = "return"
    /\ pc' = "returned"
    /\ status' = "0"
    /\ UNCHANGED <<argv, infile_lines, cmdline, pos, heap, array, result, streams,
                   opened, closed>>

\* main closes nothing itself: the file objects FileType opened are closed,
\* if at all, by the interpreter once main is left and they are collected
Finalize ==
    /\ pc \in Terminal
    /\ opened # closed
    /\ closed' = opened
    /\ UNCHANGED <<argv, infile_lines, pc, cmdline, pos, heap, array, result,
                   streams, opened, status>>

Next ==
    \/ ParseArgs
    \/ MapFloat
    \/ ReadLine
    \/ CallCumulativeProduct
    \/ PrintResult
    \/ Return
    \/ Finalize

Spec == Init /\ [][Next]_vars

----------------------------------------------------------------------------
(* What the claims speak of.                                               *)

Terminated == pc \in Terminal

\* parse_args returned a namespace: this run of main processes its input
Parsed == cmdline # NoNamespace

\* The input sequence a: the numbers the lines of the input stream stand for.
InputValues == [k \in 1..Len(infile_lines) |-> ParseFloat(infile_lines[k]).val]

AllNumeric == \A k \in 1..Len(infile_lines) : ParseFloat(infile_lines[k]).ok

\* a[0] * ... * a[i-1], multiplied from the left
RECURSIVE Product(_, _)
Product(a, i) == IF i = 1 THEN a[1] ELSE Mul(Product(a, i - 1), a[i])

\* The text written to the output destination of a run that has one.
ResultText == IF Parsed THEN streams[cmdline.outfile] ELSE <<>>

\* The lines of a text, each without the "\n" that ends it.
RECURSIVE TextLines(_, _)
TextLines(text, cur) ==
    IF text = <<>> THEN (IF cur = <<>> THEN <<>> ELSE <<cur>>)
    ELSE IF text[1] = "\n" THEN <<cur>> \o TextLines(Tail(text), <<>>)
    ELSE TextLines(Tail(text), Append(cur, text[1]))

EndsWithNewline(text) == text # <<>> /\ text[Len(text)] = "\n"

Called == result # 0

\* C1: prefix-product law.  Once cumulative_product has returned r for the
\* input sequence a, r[i] is the product of a[0..i] at every index i of a.
C1_PrefixProduct ==
    Called =>
        /\ Len(heap[result]) >= Len(InputValues)
        /\ \A i \in 1..Len(InputValues) :
              heap[result][i] = Product(InputValues, i)

C1_Witness ==
    /\ Called
    /\ Len(InputValues) = MaxLen
    /\ heap[result][MaxLen] # heap[result][MaxLen - 1]
    /\ heap[result][MaxLen].mag > 0

\* C2: length invariant.  The sequence cumulative_product returns is as long
\* as its argument, for the empty sequence, for one element, and when the
\* value of the last element occurs earlier in the sequence.
C2_LengthInvariant == Called => Len(heap[result]) = Len(InputValues)

C2_Witness ==
    /\ Called
    /\ Len(InputValues) >= 3
    /\ \E k \in 2..(Len(InputValues) - 1) :
          InputValues[k] = InputValues[Len(InputValues)]

\* C3: non-mutation.  The step that calls cumulative_product leaves the list
\* object passed to it as it was and returns another list object.
C3_NonMutation ==
    [][result' # result => (heap'[array] = heap[array] /\ result' # array)]_vars

C3_Witness ==
    /\ Called
    /\ Len(heap[array]) >= 2
    /\ heap[result] # heap[array]
    /\ heap[array] = InputValues

\* C4: CLI output.  A run of main that processes n >= 1 numeric lines ends by
\* returning 0, having written to the output destination exactly the n
\* formatted cumulative products, one per line in input order, or with -l
\* exactly one line, the last cumulative product.
C4_CliOutput ==
    (Parsed /\ Terminated /\ AllNumeric /\ Len(infile_lines) >= 1) =>
        /\ pc = "returned"
        /\ status = "0"
        /\ EndsWithNewline(ResultText)
        /\ TextLines(ResultText, <<>>) =
              IF cmdline.last_only
              THEN <<format_g(Product(InputValues, Len(InputValues)))>>
              ELSE [i \in 1..Len(InputValues) |->
                        format_g(Product(InputValues, i))]

C4_Witness ==
    /\ pc = "returned"
    /\ cmdline.last_only
    /\ Len(infile_lines) = MaxLen
    /\ ResultText = <<"1", "e", "+", "0", "6", "\n">>

\* C5: parse error.  A run of main that processes an input stream with a
\* line that is no number never writes to the output destination and ends
\* with ValueError raised, not with a return of 0.
C5_ParseError ==
    (Parsed /\ ~AllNumeric) =>
        /\ ResultText = <<>>
        /\ pc # "returned"
        /\ status # "0"
        /\ Terminated => (pc = "raised" /\ status = "ValueError")

C5_Witness ==
    /\ pc = "raised"
    /\ status = "ValueError"
    /\ pos = MaxLen
    /\ Len(heap[array]) = MaxLen - 1

\* C6: resource release.  When main has ended, by return, by the parse error
\* or by the version exit, every stream it opened has been closed.
C6_StreamsReleased ==
    (Terminated /\ status \in {"0", "ValueError", "SystemExit(0)"}) =>
        opened \subseteq closed

HasArg(tok) == \E k \in 1..Len(argv) : argv[k] = tok

\* C7: default input source.  Without a positional argument (and without -v)
\* parse_args returns a namespace whose infile is standard input, and whose
\* outfile is standard output unless -o is given.
C7_DefaultStdin ==
    (~HasArg("in.txt") /\ ~HasArg("-v") /\ pc # "parse_args") =>
        /\ Parsed
        /\ cmdline.infile = "<stdin>"
        /\ ~HasArg("-oout.txt") => cmdline.outfile = "<stdout>"

\* C8: version flag.  With -v among the arguments main prints the version to
\* standard output and exits with status 0: no line of the input stream is
\* read, cumulative_product is not called, no result is written.
C8_VersionExit ==
    (HasArg("-v") /\ pc # "parse_args") =>
        /\ pc = "exited"
        /\ status = "SystemExit(0)"
        /\ streams["<stdout>"] = VersionText
        /\ streams["out.txt"] = <<>>
        /\ pos = 0
        /\ ~Called
        /\ heap = <<>>

C8_Witness ==
    /\ HasArg("-v")
    /\ HasArg("in.txt")
    /\ argv[Len(argv)] = "-v"
    /\ pc = "exited"
    /\ infile_lines # <<>>
    /\ "in.txt" \in opened

\* C9: eager consumption.  cumulative_product is called, and anything is
\* written to the output destination, only after every line of the input
\* stream has been read; so no write precedes a read.
C9_EagerConsumption ==
    (Called \/ ResultText # <<>>) => pos = Len(infile_lines)

C9_Witness ==
    /\ pc = "return"
    /\ pos = MaxLen
    /\ Len(TextLines(ResultText, <<>>)) = MaxLen

\* C10: empty input.  A run of main that processes an input stream of no
\* lines raises nothing and, with or without -l, ends by returning 0 having
\* written one empty line.
C10_EmptyInput ==
    (Parsed /\ infile_lines = <<>>) =>
        /\ pc # "raised"
        /\ Terminated =>
              /\ pc = "returned"
              /\ status = "0"
              /\ ResultText = <<"\n">>
              /\ TextLines(ResultText, <<>>) = << <<>> >>

C10_Witness ==
    /\ infile_lines = <<>>
    /\ pc = "returned"
    /\ cmdline.last_only
    /\ heap[result] = <<>>

====
